---- MODULE Spec2Model ----
(***************************************************************************)
(* Model of stablecoin_premiums.compute: the rate validation, the two      *)
(* ratio formulas, the optional rounding and the compute_premiums          *)
(* pipeline, run by one caller and by concurrent threads; of the Binance   *)
(* client (clients/binance.py: _valid_ad, the retry loop of _fetch_ads,    *)
(* average_price); of the XE client (clients/xe.py: fetch_fx_rate); and    *)
(* of the batch of the command line (cli.py: _parse_fiats,                 *)
(* _collect_for_fiat, main).  Each component has its own variables and     *)
(* its own specification; the actions of one leave the others alone.       *)
(*                                                                         *)
(* Python values are records [ty, cls, n, d]:                              *)
(*   ty  : the Python type ("NoneType", "str", "list", "float")            *)
(*   cls : "none" | "badtext" | "nan" | "inf" | "ninf" | "fin"             *)
(*   n/d : the number, a reduced fraction with d > 0, when cls = "fin"     *)
(* A finite float is modelled by the exact rational it denotes; the IEEE   *)
(* special values NaN, +inf and -inf are kept as values of their own and   *)
(* follow the IEEE rules.  Binary rounding error of finite float           *)
(* arithmetic is not modelled.                                             *)
(***************************************************************************)
EXTENDS Integers, Sequences, FiniteSets, TLC

\* ---------------------------------------------------------------- bounds
\* Largest whole-number rate offered as an input.
MaxRate == 3
\* The smallest positive input is 1/TinyDen.
TinyDen == 1000
\* Largest rounding precision offered as `decimals`.
MaxDecimals == 1
\* Longest list of ads the endpoint returns.
MaxAds == 3
\* Largest max_retries and MAX_RETRIES offered.
MaxRetries == 3

\* ---------------------------------------------------------------- values
RECURSIVE GCD(_, _)
GCD(a, b) == IF b = 0 THEN a ELSE GCD(b, a % b)

Abs(x) == IF x < 0 THEN -x ELSE x

RECURSIVE Pow10(_)
Pow10(k) == IF k = 0 THEN 1 ELSE 10 * Pow10(k - 1)

\* The finite float n/d, reduced, with a positive denominator (d # 0).
Fin(n, d) ==
    LET g == GCD(Abs(n), Abs(d))
        s == IF d < 0 THEN -1 ELSE 1
    IN  [ty |-> "float", cls |-> "fin", n |-> s * (n \div g), d |-> s * (d \div g)]

NaN    == [ty |-> "float", cls |-> "nan",  n |-> 0, d |-> 1]
PosInf == [ty |-> "float", cls |-> "inf",  n |-> 0, d |-> 1]
NegInf == [ty |-> "float", cls |-> "ninf", n |-> 0, d |-> 1]

\* Python's None.
PyNone == [ty |-> "NoneType", cls |-> "none", n |-> 0, d |-> 1]
\* A string that is no number, such as 'abc'.
BadText == [ty |-> "str", cls |-> "badtext", n |-> 0, d |-> 1]
\* A string that spells the number n/d, such as '2'.
NumText(n, d) == [ty |-> "str", cls |-> "fin", n |-> n, d |-> d]
\* The string 'nan', which float() turns into NaN.
NanText == [ty |-> "str", cls |-> "nan", n |-> 0, d |-> 1]
\* An object float() does not accept, such as a list.
PyList == [ty |-> "list", cls |-> "none", n |-> 0, d |-> 1]
\* A field that holds no value (an unassigned local, an absent message part).
Absent == [ty |-> "absent", cls |-> "none", n |-> 0, d |-> 1]

\* The values offered as arguments.
FloatValues ==
    {Fin(k, 1) : k \in -1..MaxRate} \cup {Fin(1, TinyDen), NaN, PosInf, NegInf}
Values == FloatValues \cup {PyNone, BadText, PyList, NumText(MaxRate, 1)}

\* `decimals`: None, or an int.
NoDecimals == [given |-> FALSE, d |-> 0]
Decimals(k) == [given |-> TRUE, d |-> k]
DecimalsValues == {NoDecimals} \cup {Decimals(k) : k \in 0..MaxDecimals}

\* ------------------------------------------------------ outcomes of a call
Raise(exc, name, text, got) ==
    [kind |-> "raise", exc |-> exc, name |-> name, text |-> text,
     got |-> got, value |-> Absent]
Return(v) ==
    [kind |-> "return", exc |-> "", name |-> "", text |-> "",
     got |-> Absent, value |-> v]
Pending ==
    [kind |-> "none", exc |-> "", name |-> "", text |-> "",
     got |-> Absent, value |-> Absent]

\* ------------------------------------------------------ float arithmetic
IsZero(v) == v.cls = "fin" /\ v.n = 0
\* -1, 0, 1: sign of a float that is not NaN.
Sgn(v) ==
    CASE v.cls = "inf"  -> 1
      [] v.cls = "ninf" -> -1
      [] OTHER          -> IF v.n > 0 THEN 1 ELSE IF v.n < 0 THEN -1 ELSE 0
Signed(s) == IF s > 0 THEN PosInf ELSE NegInf

\* a / b on floats, b not zero.
FDiv(a, b) ==
    IF a.cls = "nan" \/ b.cls = "nan" THEN NaN
    ELSE IF a.cls # "fin" /\ b.cls # "fin" THEN NaN
    ELSE IF a.cls # "fin" THEN Signed(Sgn(a) * Sgn(b))
    ELSE IF b.cls # "fin" THEN Fin(0, 1)
    ELSE Fin(a.n * b.d, a.d * b.n)

\* a - b on floats.
FSub(a, b) ==
    IF a.cls = "nan" \/ b.cls = "nan" THEN NaN
    ELSE IF a.cls # "fin" /\ b.cls # "fin"
         THEN IF a.cls = b.cls THEN NaN ELSE a
    ELSE IF a.cls # "fin" THEN a
    ELSE IF b.cls # "fin" THEN Signed(-Sgn(b))
    ELSE Fin(a.n * b.d - b.n * a.d, a.d * b.d)

\* a * b on floats.
FMul(a, b) ==
    IF a.cls = "nan" \/ b.cls = "nan" THEN NaN
    ELSE IF a.cls # "fin" \/ b.cls # "fin"
         THEN IF IsZero(a) \/ IsZero(b) THEN NaN ELSE Signed(Sgn(a) * Sgn(b))
    ELSE Fin(a.n * b.n, a.d * b.d)

\* a + b on floats.
FAdd(a, b) ==
    IF a.cls = "nan" \/ b.cls = "nan" THEN NaN
    ELSE IF a.cls # "fin" /\ b.cls # "fin"
         THEN IF a.cls = b.cls THEN a ELSE NaN
    ELSE IF a.cls # "fin" THEN a
    ELSE IF b.cls # "fin" THEN b
    ELSE Fin(a.n * b.d + b.n * a.d, a.d * b.d)

\* a < b on floats: False when either is NaN.
FLt(a, b) ==
    IF a.cls = "nan" \/ b.cls = "nan" THEN FALSE
    ELSE IF a.cls = "inf" \/ b.cls = "ninf" THEN FALSE
    ELSE IF a.cls = "ninf" \/ b.cls = "inf" THEN TRUE
    ELSE a.n * b.d < b.n * a.d

\* v < 0 in place of v <= 0: zero is let through.
FLt0(v) ==
    CASE v.cls = "nan"  -> FALSE
      [] v.cls = "inf"  -> FALSE
      [] v.cls = "ninf" -> TRUE
      [] OTHER          -> v.n < 0

\* v <= 0 on floats: False for NaN.
FLe0(v) ==
    CASE v.cls = "nan"  -> FALSE
      [] v.cls = "inf"  -> FALSE
      [] v.cls = "ninf" -> TRUE
      [] OTHER          -> v.n <= 0

\* ------------------------------------------------------ Python operators
\* float(value)
py_float(value) ==
    CASE value.ty = "float" -> Return(value)
      [] value.ty = "str"   ->
            IF value.cls = "badtext"
            THEN Raise("ValueError", "", "could not convert string to float", Absent)
            ELSE IF value.cls = "nan" THEN Return(NaN)
            ELSE Return(Fin(value.n, value.d))
      [] OTHER -> Raise("TypeError", "", "float() argument must be a string or a real number", Absent)

\* a / b
py_truediv(a, b) ==
    IF a.ty # "float" \/ b.ty # "float"
    THEN Raise("TypeError", "", "unsupported operand type(s) for /", Absent)
    ELSE IF IsZero(b)
    THEN Raise("ZeroDivisionError", "", "float division by zero", Absent)
    ELSE Return(FDiv(a, b))

\* a - b
py_sub(a, b) ==
    IF a.ty # "float" \/ b.ty # "float"
    THEN Raise("TypeError", "", "unsupported operand type(s) for -", Absent)
    ELSE Return(FSub(a, b))

\* round(value, ndigits) on a float: to the nearest multiple of 10^-ndigits,
\* a tie going to the even multiple; NaN and the infinities are returned as is.
py_round(value, ndigits) ==
    IF value.cls # "fin" THEN value
    ELSE LET scaled == value.n * Pow10(ndigits)
             q == scaled \div value.d
             r == scaled % value.d
             k == IF 2 * r < value.d THEN q
                  ELSE IF 2 * r > value.d THEN q + 1
                  ELSE IF q % 2 = 0 THEN q ELSE q + 1
         IN  Fin(k, Pow10(ndigits))

\* ------------------------------------------------------------- compute.py
\* _validate_positive with `except ValueError` alone: a TypeError of float() escapes.
_validate_positive_catches_ValueError_only(name, value) ==
    IF value.ty = "NoneType"
    THEN Raise("ValueError", name, "must not be None", Absent)
    ELSE LET v == py_float(value)
         IN  IF v.kind = "raise" /\ v.exc \in {"ValueError"}
             THEN Raise("ValueError", name, "must be a number", Absent)
             ELSE IF v.kind = "raise" THEN v
             ELSE IF FLe0(v.value)
             THEN Raise("ValueError", name, "must be > 0; got", v.value)
             ELSE Return(PyNone)

\* _validate_positive with a minimum magnitude: v <= 0.01 in place of v <= 0.
_validate_positive_min_magnitude(name, value) ==
    IF value.ty = "NoneType"
    THEN Raise("ValueError", name, "must not be None", Absent)
    ELSE LET v == py_float(value)
         IN  IF v.kind = "raise" /\ v.exc \in {"TypeError", "ValueError"}
             THEN Raise("ValueError", name, "must be a number", Absent)
             ELSE IF v.kind = "raise" THEN v
             ELSE IF FLe0(v.value) \/ (v.value.cls = "fin" /\ v.value.n * 100 <= v.value.d)
             THEN Raise("ValueError", name, "must be > 0; got", v.value)
             ELSE Return(PyNone)

_validate_positive(name, value) ==
    IF value.ty = "NoneType"
    THEN Raise("ValueError", name, "must not be None", Absent)
    ELSE LET v == py_float(value)
         IN  IF v.kind = "raise" /\ v.exc \in {"TypeError", "ValueError"}
             THEN Raise("ValueError", name, "must be a number", Absent)
             ELSE IF v.kind = "raise" THEN v
             ELSE IF FLe0(v.value)
             THEN Raise("ValueError", name, "must be > 0; got", v.value)
             ELSE Return(PyNone)

\* compute_premium with the ratio inverted.
compute_premium_inverted(numerator_rate, denominator_rate) ==
    LET v1 == _validate_positive("numerator_rate", numerator_rate)
        v2 == _validate_positive("denominator_rate", denominator_rate)
        q  == py_truediv(denominator_rate, numerator_rate)
    IN  IF v1.kind = "raise" THEN v1
        ELSE IF v2.kind = "raise" THEN v2
        ELSE IF q.kind = "raise" THEN q
        ELSE Return(FMul(FSub(q.value, Fin(1, 1)), Fin(100, 1)))

compute_premium(numerator_rate, denominator_rate) ==
    LET v1 == _validate_positive("numerator_rate", numerator_rate)
        v2 == _validate_positive("denominator_rate", denominator_rate)
        q  == py_truediv(numerator_rate, denominator_rate)
    IN  IF v1.kind = "raise" THEN v1
        ELSE IF v2.kind = "raise" THEN v2
        ELSE IF q.kind = "raise" THEN q
        ELSE Return(FMul(FSub(q.value, Fin(1, 1)), Fin(100, 1)))

\* compute_spread relative to buy_rate in place of sell_rate.
compute_spread_over_buy(buy_rate, sell_rate) ==
    LET v1 == _validate_positive("buy_rate", buy_rate)
        v2 == _validate_positive("sell_rate", sell_rate)
        s  == py_sub(buy_rate, sell_rate)
        q  == py_truediv(s.value, buy_rate)
    IN  IF v1.kind = "raise" THEN v1
        ELSE IF v2.kind = "raise" THEN v2
        ELSE IF s.kind = "raise" THEN s
        ELSE IF q.kind = "raise" THEN q
        ELSE Return(FMul(q.value, Fin(100, 1)))

compute_spread(buy_rate, sell_rate) ==
    LET v1 == _validate_positive("buy_rate", buy_rate)
        v2 == _validate_positive("sell_rate", sell_rate)
        s  == py_sub(buy_rate, sell_rate)
        q  == py_truediv(s.value, sell_rate)
    IN  IF v1.kind = "raise" THEN v1
        ELSE IF v2.kind = "raise" THEN v2
        ELSE IF s.kind = "raise" THEN s
        ELSE IF q.kind = "raise" THEN q
        ELSE Return(FMul(q.value, Fin(100, 1)))

\* _maybe_round that cuts the digits off (towards zero) instead of rounding.
_maybe_round_truncates(value, decimals) ==
    IF ~decimals.given \/ value.cls # "fin" THEN value
    ELSE Fin(Sgn(value) * ((Abs(value.n) * Pow10(decimals.d)) \div value.d),
             Pow10(decimals.d))

_maybe_round(value, decimals) ==
    IF ~decimals.given THEN value ELSE py_round(value, decimals.d)

\* The frozen dataclass Premiums, lines 60-77.
Premiums(sp, bp, sr) ==
    [stablecoin_sell_premium |-> sp, stablecoin_buy_premium |-> bp,
     stablecoin_buy_sell_spread |-> sr]

\* compute_premiums, lines 144-188, as one function of its arguments: what a
\* caller that runs it alone, start to end, gets back.
compute_premiums(sell_rate, buy_rate, fx_bid, fx_ask, decimals) ==
    LET v1 == _validate_positive("sell_rate", sell_rate)
        v2 == _validate_positive("buy_rate", buy_rate)
        v3 == _validate_positive("fx_bid", fx_bid)
        v4 == _validate_positive("fx_ask", fx_ask)
        sp == compute_premium(sell_rate, fx_bid)
        bp == compute_premium(buy_rate, fx_ask)
        sr == compute_spread(buy_rate, sell_rate)
    IN  IF v1.kind = "raise" THEN v1
        ELSE IF v2.kind = "raise" THEN v2
        ELSE IF v3.kind = "raise" THEN v3
        ELSE IF v4.kind = "raise" THEN v4
        ELSE IF sp.kind = "raise" THEN sp
        ELSE IF bp.kind = "raise" THEN bp
        ELSE IF sr.kind = "raise" THEN sr
        ELSE Return(Premiums(_maybe_round(sp.value, decimals),
                             _maybe_round(bp.value, decimals),
                             _maybe_round(sr.value, decimals)))

\* ------------------------------------------------------------------ state
VARIABLES
    pc,            \* where the current call stands: "idle", a line of compute.py, "done", "raised"
    fn,            \* the function called
    args,          \* its arguments, by parameter name
    decimals,      \* compute_premiums' decimals
    sell_premium,  \* compute_premiums' locals
    buy_premium,
    spread,
    outcome,       \* what the call raised or returned
    last,          \* history: an earlier call and its outcome, as an observer noted it
    calls,         \* concurrent invocations of compute_premiums, one per thread
    frames,        \* their stack frames: the locals of each invocation
    fetch,         \* binance._fetch_ads: the retry loop
    ap,            \* binance.average_price: the call and what it returned
    xe,            \* xe.fetch_fx_rate: the call and what it returned
    cli            \* cli.main: the batch over the requested fiats

coreVars == <<pc, fn, args, decimals, sell_premium, buy_premium, spread, outcome>>
vars == <<pc, fn, args, decimals, sell_premium, buy_premium, spread, outcome,
          last, calls, frames, fetch, ap, xe, cli>>

\* An action of one component leaves the variables v of the others alone.
Keep(Act, v) == Act /\ UNCHANGED v

\* No call: no arguments.
NoArgs == [p \in {} |-> Absent]

\* No earlier call noted.
NoCall == [fn |-> "none", args |-> NoArgs, decimals |-> NoDecimals, outcome |-> Pending]

\* The threads that call compute_premiums concurrently.
Threads == {"t1", "t2"}
IdleCall == [pc |-> "idle", args |-> NoArgs, decimals |-> NoDecimals, outcome |-> Pending]
NoFrame == [sell_premium |-> Absent, buy_premium |-> Absent, spread |-> Absent]

\* decimals-like optional int of the clients: None, or an int.
NoInt == [given |-> FALSE, d |-> 0]
Int_(k) == [given |-> TRUE, d |-> k]

FetchIdle ==
    [pc |-> "idle", max_retries |-> NoInt, MAX_RETRIES |-> 0, _retries |-> 0,
     _sleep |-> Fin(0, 1), attempt |-> 0, log |-> << >>, sleeps |-> 0,
     not_json |-> {}, result |-> [ty |-> "none", ads |-> << >>]]
ApIdle ==
    [pc |-> "idle", fetched |-> [ty |-> "none", ads |-> << >>], take_top |-> 0,
     average_last_n |-> 0, min_valid_ads |-> NoInt, outcome |-> Pending]
XeIdle ==
    [pc |-> "idle", id |-> "unset", key |-> "unset", requests |-> 0,
     response |-> [kind |-> "none", to |-> "missing", row |-> "dict",
                   mid |-> Absent, bid |-> Absent, ask |-> Absent],
     outcome |-> Pending]
CliIdle ==
    [pc |-> "idle", cli_fiats |-> << >>, DEFAULT_FIATS |-> << >>, decimals |-> NoDecimals,
     min_valid_ads |-> NoInt, fiats |-> << >>, rows |-> << >>, ads |-> << >>,
     fetched |-> << >>, exit |-> -1]

Init ==
    /\ pc = "idle"
    /\ fn = "none"
    /\ args = NoArgs
    /\ decimals = NoDecimals
    /\ sell_premium = Absent
    /\ buy_premium = Absent
    /\ spread = Absent
    /\ outcome = Pending
    /\ last = NoCall
    /\ calls = [t \in Threads |-> IdleCall]
    /\ frames = [t \in Threads |-> NoFrame]
    /\ fetch = FetchIdle
    /\ ap = ApIdle
    /\ xe = XeIdle
    /\ cli = CliIdle

Enter(f, a, dec, line) ==
    /\ pc' = line
    /\ fn' = f
    /\ args' = a
    /\ decimals' = dec
    /\ sell_premium' = Absent
    /\ buy_premium' = Absent
    /\ spread' = Absent
    /\ outcome' = Pending

\* A caller calls compute_premium(x, y).
CallPremium ==
    /\ pc = "idle"
    /\ \E x \in Values, y \in Values :
        Enter("compute_premium",
              [numerator_rate |-> x, denominator_rate |-> y], NoDecimals, "L111")

\* A caller calls compute_spread(x, y).
CallSpread ==
    /\ pc = "idle"
    /\ \E x \in Values, y \in Values :
        Enter("compute_spread", [buy_rate |-> x, sell_rate |-> y], NoDecimals, "L130")

\* A caller calls compute_premiums(sell_rate=s, buy_rate=b, fx_bid=fb, fx_ask=fa, decimals=dec).
CallPremiums ==
    /\ pc = "idle"
    /\ \E s \in Values, b \in Values, fb \in Values, fa \in Values, dec \in DecimalsValues :
        Enter("compute_premiums",
              [sell_rate |-> s, buy_rate |-> b, fx_bid |-> fb, fx_ask |-> fa], dec, "L169")

Finish(o) ==
    /\ pc' = IF o.kind = "raise" THEN "raised" ELSE "done"
    /\ outcome' = o
    /\ UNCHANGED <<fn, args, decimals, sell_premium, buy_premium, spread>>

\* The body of compute_premium, called from outside.
RunPremium ==
    /\ pc = "L111"
    /\ Finish(compute_premium(args.numerator_rate, args.denominator_rate))

\* The body of compute_spread, called from outside.
RunSpread ==
    /\ pc = "L130"
    /\ Finish(compute_spread(args.buy_rate, args.sell_rate))

\* compute_premiums, lines 169-172: one input validated per step.
ValidateAt(line, name, next) ==
    /\ pc = line
    /\ LET v == _validate_positive(name, args[name])
       IN  IF v.kind = "raise"
           THEN Finish(v)
           ELSE /\ pc' = next
                /\ UNCHANGED <<fn, args, decimals, sell_premium, buy_premium, spread, outcome>>

\* Line 169 validating buy_rate in place of sell_rate.
ValidateSellRate_validates_buy_rate == ValidateAt("L169", "buy_rate", "L170")
ValidateSellRate == ValidateAt("L169", "sell_rate", "L170")
ValidateBuyRate == ValidateAt("L170", "buy_rate", "L171")
\* Line 171 validating fx_ask a second time in place of fx_bid.
ValidateFxBid_validates_fx_ask == ValidateAt("L171", "fx_ask", "L172")
ValidateFxBid == ValidateAt("L171", "fx_bid", "L172")
\* Line 172 left out: fx_ask goes unvalidated into the computation.
ValidateFxAsk_skipped ==
    /\ pc = "L172"
    /\ pc' = "L175"
    /\ UNCHANGED <<fn, args, decimals, sell_premium, buy_premium, spread, outcome>>
ValidateFxAsk == ValidateAt("L172", "fx_ask", "L175")

\* compute_premiums, lines 175-177: the raw metrics.
\* Line 175 pairing sell_rate with fx_ask.
ComputeSellPremium_vs_fx_ask ==
    /\ pc = "L175"
    /\ LET r == compute_premium(args.sell_rate, args.fx_ask)
       IN  IF r.kind = "raise"
           THEN Finish(r)
           ELSE /\ pc' = "L176"
                /\ sell_premium' = r.value
                /\ UNCHANGED <<fn, args, decimals, buy_premium, spread, outcome>>

ComputeSellPremium ==
    /\ pc = "L175"
    /\ LET r == compute_premium(args.sell_rate, args.fx_bid)
       IN  IF r.kind = "raise"
           THEN Finish(r)
           ELSE /\ pc' = "L176"
                /\ sell_premium' = r.value
                /\ UNCHANGED <<fn, args, decimals, buy_premium, spread, outcome>>

ComputeBuyPremium ==
    /\ pc = "L176"
    /\ LET r == compute_premium(args.buy_rate, args.fx_ask)
       IN  IF r.kind = "raise"
           THEN Finish(r)
           ELSE /\ pc' = "L177"
                /\ buy_premium' = r.value
                /\ UNCHANGED <<fn, args, decimals, sell_premium, spread, outcome>>

ComputeSpread ==
    /\ pc = "L177"
    /\ LET r == compute_spread(args.buy_rate, args.sell_rate)
       IN  IF r.kind = "raise"
           THEN Finish(r)
           ELSE /\ pc' = "L180"
                /\ spread' = r.value
                /\ UNCHANGED <<fn, args, decimals, sell_premium, buy_premium, outcome>>

\* compute_premiums, lines 180-182: the optional rounding.
RoundSellPremium ==
    /\ pc = "L180"
    /\ pc' = "L181"
    /\ sell_premium' = _maybe_round(sell_premium, decimals)
    /\ UNCHANGED <<fn, args, decimals, buy_premium, spread, outcome>>

RoundBuyPremium ==
    /\ pc = "L181"
    /\ pc' = "L182"
    /\ buy_premium' = _maybe_round(buy_premium, decimals)
    /\ UNCHANGED <<fn, args, decimals, sell_premium, spread, outcome>>

RoundSpread ==
    /\ pc = "L182"
    /\ pc' = "L184"
    /\ spread' = _maybe_round(spread, decimals)
    /\ UNCHANGED <<fn, args, decimals, sell_premium, buy_premium, outcome>>
\* compute_premiums, lines 184-188, with state kept across calls: once a call
\* has been noted the spread is returned as computed, unrounded. Not what
\* the code does.
ReturnPremiums_stateful ==
    /\ pc = "L184"
    /\ IF last = NoCall
       THEN Finish(Return(Premiums(sell_premium, buy_premium, spread)))
       ELSE Finish(Return(Premiums(sell_premium, buy_premium,
                                   compute_spread(args.buy_rate, args.sell_rate).value)))

\* compute_premiums, lines 184-188: the result is built and returned.
ReturnPremiums ==
    /\ pc = "L184"
    /\ Finish(Return(Premiums(sell_premium, buy_premium, spread)))

\* The caller has the outcome; the next call may start.
Resume ==
    /\ pc \in {"done", "raised"}
    /\ pc' = "idle"
    /\ fn' = "none"
    /\ args' = NoArgs
    /\ decimals' = NoDecimals
    /\ sell_premium' = Absent
    /\ buy_premium' = Absent
    /\ spread' = Absent
    /\ outcome' = Pending

\* The variables of the other components.
notCore == <<last, calls, frames, fetch, ap, xe, cli>>

Next ==
    \/ Keep(CallPremium, notCore)
    \/ Keep(CallSpread, notCore)
    \/ Keep(CallPremiums, notCore)
    \/ Keep(RunPremium, notCore)
    \/ Keep(RunSpread, notCore)
    \/ Keep(ValidateSellRate, notCore)
    \/ Keep(ValidateBuyRate, notCore)
    \/ Keep(ValidateFxBid, notCore)
    \/ Keep(ValidateFxAsk, notCore)
    \/ Keep(ComputeSellPremium, notCore)
    \/ Keep(ComputeBuyPremium, notCore)
    \/ Keep(ComputeSpread, notCore)
    \/ Keep(RoundSellPremium, notCore)
    \/ Keep(RoundBuyPremium, notCore)
    \/ Keep(RoundSpread, notCore)
    \/ Keep(ReturnPremiums, notCore)
    \/ Keep(Resume, notCore)

Spec == Init /\ [][Next]_vars

\* The same calls of compute_premiums on P2P quotes within half a percent of
\* each other (199, 200, 201) against whole-number FX rates: the spread lands
\* on, above and below half a unit of the last digit kept.
NearQuotes == {Fin(199 + k, 1) : k \in 0..2}
FxRates == {Fin(k, 1) : k \in 1..MaxRate}

CallPremiumsNearQuotes ==
    /\ pc = "idle"
    /\ \E s \in NearQuotes, b \in NearQuotes, fb \in FxRates, fa \in FxRates,
          dec \in DecimalsValues :
        Enter("compute_premiums",
              [sell_rate |-> s, buy_rate |-> b, fx_bid |-> fb, fx_ask |-> fa], dec, "L169")

NextTies ==
    \/ Keep(CallPremiumsNearQuotes, notCore)
    \/ Keep(ValidateSellRate, notCore)
    \/ Keep(ValidateBuyRate, notCore)
    \/ Keep(ValidateFxBid, notCore)
    \/ Keep(ValidateFxAsk, notCore)
    \/ Keep(ComputeSellPremium, notCore)
    \/ Keep(ComputeBuyPremium, notCore)
    \/ Keep(ComputeSpread, notCore)
    \/ Keep(RoundSellPremium, notCore)
    \/ Keep(RoundBuyPremium, notCore)
    \/ Keep(RoundSpread, notCore)
    \/ Keep(ReturnPremiums, notCore)
    \/ Keep(Resume, notCore)

SpecTies == Init /\ [][NextTies]_vars

\* ------------------------------------------------ repeated calls, observed
\* compute_premiums is called again and again on a few quotes, a zero among
\* them, and an observer notes one finished call with its outcome; any number
\* of other calls may follow before the noted call is made again.
RepeatQuotes == {Fin(0, 1), Fin(1, 1), Fin(3, 1)}
RepeatFx == {Fin(1, 1), Fin(3, 1)}

CallPremiumsAgain ==
    /\ pc = "idle"
    /\ \E s \in RepeatQuotes, b \in RepeatQuotes, fb \in RepeatFx, fa \in RepeatFx,
          dec \in DecimalsValues :
        Enter("compute_premiums",
              [sell_rate |-> s, buy_rate |-> b, fx_bid |-> fb, fx_ask |-> fa], dec, "L169")

\* The observer notes the call that has just ended.
Note ==
    /\ pc \in {"done", "raised"}
    /\ last # [fn |-> fn, args |-> args, decimals |-> decimals, outcome |-> outcome]
    /\ last' = [fn |-> fn, args |-> args, decimals |-> decimals, outcome |-> outcome]
    /\ UNCHANGED coreVars

notCoreNorLast == <<calls, frames, fetch, ap, xe, cli>>

NextRepeat ==
    \/ Keep(CallPremiumsAgain, notCore)
    \/ Keep(ValidateSellRate, notCore)
    \/ Keep(ValidateBuyRate, notCore)
    \/ Keep(ValidateFxBid, notCore)
    \/ Keep(ValidateFxAsk, notCore)
    \/ Keep(ComputeSellPremium, notCore)
    \/ Keep(ComputeBuyPremium, notCore)
    \/ Keep(ComputeSpread, notCore)
    \/ Keep(RoundSellPremium, notCore)
    \/ Keep(RoundBuyPremium, notCore)
    \/ Keep(RoundSpread, notCore)
    \/ Keep(ReturnPremiums, notCore)
    \/ Keep(Note, notCoreNorLast)
    \/ Keep(Resume, notCore)

SpecRepeat == Init /\ [][NextRepeat]_vars

\* --------------------------------------------- concurrent compute_premiums
\* Each thread runs compute_premiums line by line; the lines of the threads
\* interleave freely. A call's parameters are in calls[t]; its locals
\* sell_premium, buy_premium and spread are in the frame of its invocation.

\* The frame of every thread's invocation but one: not what Python does.
Slot_shared(t) == "t1"

\* The frame the invocation of thread t runs in: its own.
Slot(t) == t

ThreadQuotes == {Fin(0, 1), Fin(1, 1), Fin(3, 1)}
ThreadFx == {Fin(1, 1), Fin(3, 1)}

Advance(t, line) == calls' = [calls EXCEPT ![t].pc = line]
TFinish(t, o) ==
    calls' = [calls EXCEPT ![t].pc = IF o.kind = "raise" THEN "raised" ELSE "done",
                           ![t].outcome = o]

\* A thread calls compute_premiums: a new frame, no local assigned.
TCall(t) ==
    /\ calls[t].pc = "idle"
    /\ \E s \in ThreadQuotes, b \in ThreadFx, fb \in ThreadFx, dec \in DecimalsValues :
        calls' = [calls EXCEPT ![t] =
                    [pc |-> "L169",
                     args |-> [sell_rate |-> s, buy_rate |-> b, fx_bid |-> fb,
                               fx_ask |-> Fin(3, 1)],
                     decimals |-> dec, outcome |-> Pending]]
    /\ frames' = [frames EXCEPT ![Slot(t)] = NoFrame]

\* Lines 169-172.
TValidate(t) ==
    \E step \in {<<"L169", "sell_rate", "L170">>, <<"L170", "buy_rate", "L171">>,
                 <<"L171", "fx_bid", "L172">>, <<"L172", "fx_ask", "L175">>} :
        /\ calls[t].pc = step[1]
        /\ LET v == _validate_positive(step[2], calls[t].args[step[2]])
           IN  IF v.kind = "raise" THEN TFinish(t, v) ELSE Advance(t, step[3])
        /\ UNCHANGED frames

\* Lines 175-177.
TCompute(t) ==
    LET a == calls[t].args
        r == CASE calls[t].pc = "L175" -> compute_premium(a.sell_rate, a.fx_bid)
               [] calls[t].pc = "L176" -> compute_premium(a.buy_rate, a.fx_ask)
               [] OTHER -> compute_spread(a.buy_rate, a.sell_rate)
    IN  /\ calls[t].pc \in {"L175", "L176", "L177"}
        /\ IF r.kind = "raise"
           THEN TFinish(t, r) /\ UNCHANGED frames
           ELSE CASE calls[t].pc = "L175" ->
                       /\ frames' = [frames EXCEPT ![Slot(t)].sell_premium = r.value]
                       /\ Advance(t, "L176")
                  [] calls[t].pc = "L176" ->
                       /\ frames' = [frames EXCEPT ![Slot(t)].buy_premium = r.value]
                       /\ Advance(t, "L177")
                  [] OTHER ->
                       /\ frames' = [frames EXCEPT ![Slot(t)].spread = r.value]
                       /\ Advance(t, "L180")

\* Lines 180-182.
TRound(t) ==
    LET f == frames[Slot(t)]
        dec == calls[t].decimals
    IN  \/ /\ calls[t].pc = "L180"
           /\ frames' = [frames EXCEPT
                           ![Slot(t)].sell_premium = _maybe_round(f.sell_premium, dec)]
           /\ Advance(t, "L181")
        \/ /\ calls[t].pc = "L181"
           /\ frames' = [frames EXCEPT
                           ![Slot(t)].buy_premium = _maybe_round(f.buy_premium, dec)]
           /\ Advance(t, "L182")
        \/ /\ calls[t].pc = "L182"
           /\ frames' = [frames EXCEPT ![Slot(t)].spread = _maybe_round(f.spread, dec)]
           /\ Advance(t, "L184")

\* Lines 184-188: a new Premiums is built from the locals and returned.
TReturn(t) ==
    /\ calls[t].pc = "L184"
    /\ LET f == frames[Slot(t)]
       IN  TFinish(t, Return(Premiums(f.sell_premium, f.buy_premium, f.spread)))
    /\ UNCHANGED frames

\* The caller has the outcome; the frame of the invocation is gone.
TResume(t) ==
    /\ calls[t].pc \in {"done", "raised"}
    /\ calls' = [calls EXCEPT ![t] = IdleCall]
    /\ frames' = [frames EXCEPT ![Slot(t)] = NoFrame]

notThreads == <<pc, fn, args, decimals, sell_premium, buy_premium, spread, outcome,
                last, fetch, ap, xe, cli>>

NextThreads ==
    \/ \E t \in Threads : Keep(TCall(t), notThreads)
    \/ \E t \in Threads : Keep(TValidate(t), notThreads)
    \/ \E t \in Threads : Keep(TCompute(t), notThreads)
    \/ \E t \in Threads : Keep(TRound(t), notThreads)
    \/ \E t \in Threads : Keep(TReturn(t), notThreads)
    \/ \E t \in Threads : Keep(TResume(t), notThreads)

SpecThreads == Init /\ [][NextThreads]_vars

\* ------------------------------------------------- clients/binance.py: ads
\* An advertisement as the endpoint returns it: ad["adv"] with its price and
\* its limits, each a JSON value or absent. NotAnAd is an element that is no
\* dict, such as null.
Ad(price, lo, hi) ==
    [adv |-> "dict", price |-> price, minSingleTransAmount |-> lo,
     maxSingleTransAmount |-> hi]
NotAnAd ==
    [adv |-> "none", price |-> Absent, minSingleTransAmount |-> Absent,
     maxSingleTransAmount |-> Absent]

\* dict.get(key, default)
Get(v, default) == IF v = Absent THEN default ELSE v

\* _valid_ad, lines 55-76. Every exception (no dict, no "price" key, a value
\* float() refuses) makes the ad invalid. The default maximum 1e18 is beyond
\* the integers of the model; 10^9 stands for it, above every amount offered.
_valid_ad(ad) ==
    IF ad.adv # "dict" \/ ad.price = Absent THEN FALSE
    ELSE LET price == py_float(ad.price)
             min_amt == py_float(Get(ad.minSingleTransAmount, Fin(0, 1)))
             max_amt == py_float(Get(ad.maxSingleTransAmount, Fin(Pow10(9), 1)))
         IN  IF price.kind = "raise" \/ min_amt.kind = "raise" \/ max_amt.kind = "raise"
             THEN FALSE
             ELSE IF FLe0(price.value) THEN FALSE
             ELSE IF FLt(min_amt.value, Fin(0, 1)) \/ FLe0(max_amt.value) THEN FALSE
             ELSE IF FLt(max_amt.value, min_amt.value) THEN FALSE
             ELSE TRUE

\* float(a["adv"]["price"]) of an ad that passed _valid_ad.
PriceOf(ad) == py_float(ad.price).value

\* list.sort(key=...) on prices that are totally ordered: ascending, ads of
\* equal price in their original order.
RECURSIVE InsertByPrice(_, _)
InsertByPrice(x, s) ==
    IF s = << >> THEN <<x>>
    ELSE IF FLt(PriceOf(x), PriceOf(Head(s))) THEN <<x>> \o s
    ELSE <<Head(s)>> \o InsertByPrice(x, Tail(s))

RECURSIVE SortByPrice(_)
SortByPrice(s) ==
    IF s = << >> THEN << >>
    ELSE InsertByPrice(s[Len(s)], SortByPrice(SubSeq(s, 1, Len(s) - 1)))

Orders(s) ==
    {[i \in 1..Len(s) |-> s[p[i]]] :
        p \in {q \in [1..Len(s) -> 1..Len(s)] : \A i, j \in 1..Len(s) : q[i] = q[j] => i = j}}

\* What valid_ads.sort(...) can leave: the sorted list; when a price is NaN
\* every comparison with it is False and the order depends on the sorting
\* algorithm, so any order is taken as possible.
SortOutcomes(s) ==
    IF \E i \in 1..Len(s) : PriceOf(s[i]).cls = "nan"
    THEN Orders(s)
    ELSE {SortByPrice(s)}

Max(a, b) == IF a > b THEN a ELSE b
Min(a, b) == IF a < b THEN a ELSE b

\* seq[:k] for k >= 0
Take(s, k) == SubSeq(s, 1, Min(k, Len(s)))
\* seq[-n:] as Python slices it: the last n elements for n > 0, the whole
\* list for n = 0, the list without its first |n| elements for n < 0.
TakeLast(s, n) ==
    IF n > 0 THEN SubSeq(s, Max(Len(s) - n, 0) + 1, Len(s))
    ELSE SubSeq(s, Min(-n, Len(s)) + 1, Len(s))

\* sum(prices), from the int 0.
RECURSIVE Sum(_)
Sum(s) == IF s = << >> THEN Fin(0, 1) ELSE FAdd(Sum(SubSeq(s, 1, Len(s) - 1)), s[Len(s)])

\* A list of ads, as _fetch_ads returns it.
Fetched(ads) == [ty |-> "list", ads |-> ads]
\* What else _fetch_ads can hand over: a "data" member that is a number
\* (truthy, no list), and an exception it let through.
FetchedNumber == [ty |-> "int", ads |-> << >>]
FetchRaised == [ty |-> "raise", ads |-> << >>]

\* average_price with a threshold that counts every fetched ad, valid or
\* not. Not what the code does.
average_price_counts_all_ads(fetched, take_top, average_last_n, min_valid_ads) ==
    IF fetched.ty = "raise"
    THEN {Raise("ValueError", "", "sleep length must be non-negative", Absent)}
    ELSE IF fetched.ty = "int"
    THEN {Raise("TypeError", "", "'int' object is not iterable", Absent)}
    ELSE IF fetched.ads = << >> THEN {Return(PyNone)}
    ELSE LET valid_ads == SelectSeq(fetched.ads, _valid_ad)
         IN  IF min_valid_ads.given /\ Len(fetched.ads) < min_valid_ads.d
             THEN {Return(PyNone)}
             ELSE {LET top_ads == Take(sorted, Max(take_top, 0))
                       top_prices == [i \in 1..Len(top_ads) |-> PriceOf(top_ads[i])]
                       to_average == TakeLast(top_prices, average_last_n)
                   IN  IF Len(top_ads) < Max(average_last_n, 1) THEN Return(PyNone)
                       ELSE IF to_average = << >> THEN Return(PyNone)
                       ELSE Return(FDiv(Sum(to_average), Fin(Len(to_average), 1)))
                   : sorted \in SortOutcomes(valid_ads)}

\* average_price, lines 184-221, for the value _fetch_ads handed over: the
\* set of outcomes (one, unless a NaN price leaves the sort order open).
average_price(fetched, take_top, average_last_n, min_valid_ads) ==
    IF fetched.ty = "raise"
    THEN {Raise("ValueError", "", "sleep length must be non-negative", Absent)}
    ELSE IF fetched.ty = "int"
    THEN {Raise("TypeError", "", "'int' object is not iterable", Absent)}
    ELSE IF fetched.ads = << >> THEN {Return(PyNone)}
    ELSE LET valid_ads == SelectSeq(fetched.ads, _valid_ad)
         IN  IF min_valid_ads.given /\ Len(valid_ads) < min_valid_ads.d
             THEN {Return(PyNone)}
             ELSE {LET top_ads == Take(sorted, Max(take_top, 0))
                       top_prices == [i \in 1..Len(top_ads) |-> PriceOf(top_ads[i])]
                       to_average == TakeLast(top_prices, average_last_n)
                   IN  IF Len(top_ads) < Max(average_last_n, 1) THEN Return(PyNone)
                       ELSE IF to_average = << >> THEN Return(PyNone)
                       ELSE Return(FDiv(Sum(to_average), Fin(Len(to_average), 1)))
                   : sorted \in SortOutcomes(valid_ads)}

\* Defaults of take_top and average_last_n (lines 148-149).
DefaultTakeTop == 5
DefaultAverageLastN == 3

\* The ads offered: prices '0' .. 'MaxRate' and 'nan' without limits, an ad
\* whose minimum exceeds its maximum, and an element that is no ad.
AdKinds ==
    {Ad(NumText(k, 1), Absent, Absent) : k \in 0..MaxRate}
        \cup {Ad(NanText, Absent, Absent),
              Ad(NumText(1, 1), NumText(2, 1), NumText(1, 1)),
              NotAnAd}

RECURSIVE SeqsUpTo(_, _)
SeqsUpTo(S, n) ==
    IF n = 0 THEN {<< >>}
    ELSE LET shorter == SeqsUpTo(S, n - 1)
         IN  shorter \cup {Append(s, x) : s \in {t \in shorter : Len(t) = n - 1}, x \in S}

FetchedValues == {Fetched(a) : a \in SeqsUpTo(AdKinds, MaxAds)} \cup {FetchedNumber, FetchRaised}
TakeTops == {-1, 0, 2, DefaultTakeTop}
AverageLastNs == {-1, 0, 1, DefaultAverageLastN}
MinValidAds == {NoInt, Int_(2)}

\* average_price is called; _fetch_ads hands over its value.
ApCall ==
    /\ ap.pc = "idle"
    /\ \E f \in FetchedValues, tt \in TakeTops, n \in AverageLastNs, mva \in MinValidAds :
        ap' = [pc |-> "L194", fetched |-> f, take_top |-> tt, average_last_n |-> n,
               min_valid_ads |-> mva, outcome |-> Pending]

\* Lines 194-221.
ApRun ==
    /\ ap.pc = "L194"
    /\ \E o \in average_price(ap.fetched, ap.take_top, ap.average_last_n, ap.min_valid_ads) :
        ap' = [ap EXCEPT !.pc = IF o.kind = "raise" THEN "raised" ELSE "done",
                         !.outcome = o]

ApResume ==
    /\ ap.pc \in {"done", "raised"}
    /\ ap' = ApIdle

notAp == <<pc, fn, args, decimals, sell_premium, buy_premium, spread, outcome,
           last, calls, frames, fetch, xe, cli>>

NextAverage ==
    \/ Keep(ApCall, notAp)
    \/ Keep(ApRun, notAp)
    \/ Keep(ApResume, notAp)

SpecAverage == Init /\ [][NextAverage]_vars

\* ------------------------------------------------------ clients/xe.py
\* is_configured, lines 76-81: both credentials set and not empty.
is_configured(id, key) == id = "set" /\ key = "set"

\* _safe_float, lines 154-161. A key the row lacks reads as None.
_safe_float(val) ==
    IF val = Absent \/ val = PyNone THEN PyNone
    ELSE LET f == py_float(val)
         IN  IF f.kind = "raise" THEN PyNone ELSE f.value

\* The dict fetch_fx_rate returns.
FxDict(mid, bid, ask) == [mid |-> mid, bid |-> bid, ask |-> ask]

\* What requests.get and the calls on the response come to: an exception of
\* the transport ("RequestException"), an HTTP error status ("HTTPError"), a
\* body that is no JSON ("not_json"), or a JSON payload. The payload is a
\* dict or not; its "to" member is missing, an empty list, no list, or a list
\* whose first row is a dict or not; the row's mid, bid and ask are JSON
\* values or missing.
Response(kind, payload, to, row, mid, bid, ask) ==
    [kind |-> kind, payload |-> payload, to |-> to, row |-> row,
     mid |-> mid, bid |-> bid, ask |-> ask]
\* fetch_fx_rate that maps bid and ask to mid together, as soon as one of
\* them is not available. Not what the code does.
read_response_defaults_together(r) ==
    IF r.kind \in {"RequestException", "HTTPError", "not_json"} THEN Return(PyNone)
    ELSE IF r.payload # "dict"
    THEN Raise("AttributeError", "", "object has no attribute 'get'", Absent)
    ELSE IF r.to \in {"missing", "empty", "not_list"} THEN Return(PyNone)
    ELSE IF r.row # "dict"
    THEN Raise("AttributeError", "", "object has no attribute 'get'", Absent)
    ELSE LET mid == _safe_float(r.mid)
             bid == _safe_float(r.bid)
             ask == _safe_float(r.ask)
         IN  IF mid = PyNone THEN Return(PyNone)
             ELSE IF bid = PyNone \/ ask = PyNone THEN Return(FxDict(mid, mid, mid))
             ELSE Return(FxDict(mid, bid, ask))

\* fetch_fx_rate, lines 121-151, for a response.
read_response(r) ==
    IF r.kind \in {"RequestException", "HTTPError", "not_json"} THEN Return(PyNone)
    ELSE IF r.payload # "dict"
    THEN Raise("AttributeError", "", "object has no attribute 'get'", Absent)
    ELSE IF r.to \in {"missing", "empty", "not_list"} THEN Return(PyNone)
    ELSE IF r.row # "dict"
    THEN Raise("AttributeError", "", "object has no attribute 'get'", Absent)
    ELSE LET mid == _safe_float(r.mid)
             bid == _safe_float(r.bid)
             ask == _safe_float(r.ask)
         IN  IF mid = PyNone THEN Return(PyNone)
             ELSE Return(FxDict(mid,
                                IF bid # PyNone THEN bid ELSE mid,
                                IF ask # PyNone THEN ask ELSE mid))

\* fetch_fx_rate, lines 84-151.
fetch_fx_rate(id, key, r) ==
    IF ~is_configured(id, key) THEN Return(PyNone) ELSE read_response(r)

Credentials == {"unset", "empty", "set"}
XeValues ==
    {Fin(k, 1) : k \in -1..MaxRate} \cup {Absent, PyNone, BadText, NumText(2, 1), NaN}
Responses ==
    {Response(k, "dict", "missing", "dict", Absent, Absent, Absent) :
        k \in {"RequestException", "HTTPError", "not_json"}}
    \cup {Response("json", "list", "missing", "dict", Absent, Absent, Absent)}
    \cup {Response("json", "dict", t, "dict", Absent, Absent, Absent) :
            t \in {"missing", "empty", "not_list"}}
    \cup {Response("json", "dict", "rows", "number", Absent, Absent, Absent)}
    \cup {Response("json", "dict", "rows", "dict", m, b, a) :
            m \in XeValues, b \in XeValues, a \in XeValues}

\* fetch_fx_rate is called; the credentials are what the environment holds.
XeCall ==
    /\ xe.pc = "idle"
    /\ \E id \in Credentials, key \in Credentials :
        xe' = [XeIdle EXCEPT !.pc = "L110", !.id = id, !.key = key]

\* Lines 110-111.
XeNotConfigured ==
    /\ xe.pc = "L110"
    /\ ~is_configured(xe.id, xe.key)
    /\ xe' = [xe EXCEPT !.pc = "done", !.outcome = Return(PyNone)]

\* Lines 113-127: the request is sent.
XeGet ==
    /\ xe.pc = "L110"
    /\ is_configured(xe.id, xe.key)
    /\ \E r \in Responses :
        xe' = [xe EXCEPT !.pc = "L128", !.requests = @ + 1, !.response = r]

\* Lines 128-151.
XeRead ==
    /\ xe.pc = "L128"
    /\ LET o == read_response(xe.response)
       IN  xe' = [xe EXCEPT !.pc = IF o.kind = "raise" THEN "raised" ELSE "done",
                            !.outcome = o]

XeResume ==
    /\ xe.pc \in {"done", "raised"}
    /\ xe' = XeIdle

notXe == <<pc, fn, args, decimals, sell_premium, buy_premium, spread, outcome,
           last, calls, frames, fetch, ap, cli>>

NextXe ==
    \/ Keep(XeCall, notXe)
    \/ Keep(XeNotConfigured, notXe)
    \/ Keep(XeGet, notXe)
    \/ Keep(XeRead, notXe)
    \/ Keep(XeResume, notXe)

SpecXe == Init /\ [][NextXe]_vars

\* ------------------------------------------- clients/binance.py: _fetch_ads
\* The retry loop of _fetch_ads, lines 107-139. fetch.log records how each
\* attempt ended: "ok" (a response was read), "net" (requests.RequestException:
\* transport, HTTP status), "bad" (any other exception); fetch.sleeps counts
\* the completed time.sleep calls.
RetryCounts == {NoInt} \cup {Int_(k) : k \in -1..MaxRetries}
\* retry_sleep / RETRY_SLEEP in seconds: negative, zero, the default 5.0.
SleepValues == {Fin(-1, 1), Fin(0, 1), Fin(5, 1)}
\* The "data" member of a response that was read: a list of ads, null,
\* missing, a number.
OneAd == Ad(NumText(1, 1), Absent, Absent)
DataValues == {Fetched(<< >>), Fetched(<<OneAd>>), FetchedNumber}

\* Lines 107-108: the arguments, or the configured defaults.
FetchCall ==
    /\ fetch.pc = "idle"
    /\ \E mr \in RetryCounts, cfg \in -1..MaxRetries, sl \in SleepValues :
        fetch' = [FetchIdle EXCEPT !.pc = "L120", !.max_retries = mr, !.MAX_RETRIES = cfg,
                                   !._retries = IF mr.given THEN mr.d ELSE cfg,
                                   !._sleep = sl]

\* Line 120: for attempt in range(_retries); line 139 when the range is over.
FetchLoop ==
    /\ fetch.pc = "L120"
    /\ IF fetch.attempt < fetch._retries
       THEN fetch' = [fetch EXCEPT !.pc = "L122"]
       ELSE fetch' = [fetch EXCEPT !.pc = "done", !.result = Fetched(<< >>)]

\* Lines 122-130: the response is read; data.get("data", []) or [].
FetchPostOk ==
    /\ fetch.pc = "L122"
    /\ \E data \in DataValues :
        fetch' = [fetch EXCEPT !.pc = "done", !.log = Append(@, "ok"), !.result = data]

\* Lines 131-135: a RequestException; sleep unless this was the last attempt.
FetchPostRequestException ==
    /\ fetch.pc = "L122"
    /\ IF fetch.attempt < fetch._retries - 1
       THEN fetch' = [fetch EXCEPT !.pc = "L133", !.log = Append(@, "net")]
       ELSE fetch' = [fetch EXCEPT !.pc = "done", !.log = Append(@, "net"),
                                   !.result = Fetched(<< >>)]

\* Lines 136-138: any other exception, such as a payload that is no dict.
FetchPostException ==
    /\ fetch.pc = "L122"
    /\ fetch' = [fetch EXCEPT !.pc = "done", !.log = Append(@, "bad"),
                              !.result = Fetched(<< >>)]

\* Line 129: the body is no JSON and resp.json() raises. What it raises
\* depends on the release of requests installed (the package pins none):
\* requests.JSONDecodeError, a RequestException, handled by lines 131-135 like
\* a network error; or a plain ValueError, handled by lines 136-138.
\* fetch.not_json notes the attempts that ended so.
FetchPostNotJson ==
    /\ fetch.pc = "L122"
    /\ \E raised \in {"RequestException", "ValueError"} :
        IF raised = "RequestException" /\ fetch.attempt < fetch._retries - 1
        THEN fetch' = [fetch EXCEPT !.pc = "L133", !.log = Append(@, "net"),
                                    !.not_json = @ \cup {Len(fetch.log) + 1}]
        ELSE fetch' = [fetch EXCEPT
                         !.pc = "done",
                         !.log = Append(@, IF raised = "RequestException"
                                           THEN "net" ELSE "bad"),
                         !.not_json = @ \cup {Len(fetch.log) + 1},
                         !.result = Fetched(<< >>)]

\* Line 133: time.sleep(_sleep) raises ValueError for a negative length, from
\* inside the except clause; otherwise the loop goes on.
FetchSleep ==
    /\ fetch.pc = "L133"
    /\ IF FLt(fetch._sleep, Fin(0, 1))
       THEN fetch' = [fetch EXCEPT !.pc = "raised", !.result = FetchRaised]
       ELSE fetch' = [fetch EXCEPT !.pc = "L120", !.sleeps = @ + 1, !.attempt = @ + 1]

FetchResume ==
    /\ fetch.pc \in {"done", "raised"}
    /\ fetch' = FetchIdle

notFetch == <<pc, fn, args, decimals, sell_premium, buy_premium, spread, outcome,
              last, calls, frames, ap, xe, cli>>

NextFetch ==
    \/ Keep(FetchCall, notFetch)
    \/ Keep(FetchLoop, notFetch)
    \/ Keep(FetchPostOk, notFetch)
    \/ Keep(FetchPostRequestException, notFetch)
    \/ Keep(FetchPostException, notFetch)
    \/ Keep(FetchPostNotJson, notFetch)
    \/ Keep(FetchSleep, notFetch)
    \/ Keep(FetchResume, notFetch)

SpecFetch == Init /\ [][NextFetch]_vars

\* ------------------------------------------------------------------ cli.py
\* A --fiats entry is the list of the pieces between its commas; a piece is a
\* code, a code with a blank before it, a blank, or nothing. The empty entry
\* is <<"">>.
Strip(p) ==
    CASE p = " "    -> ""
      [] p = " BRL" -> "BRL"
      [] OTHER      -> p

\* [p.strip() for p in entry.split(",") if p.strip()]
RECURSIVE Parts(_)
Parts(entry) ==
    IF entry = << >> THEN << >>
    ELSE (IF Strip(Head(entry)) # "" THEN <<Strip(Head(entry))>> ELSE << >>)
            \o Parts(Tail(entry))

\* _parse_fiats, lines 75-80: the pieces of the entries that are not empty.
RECURSIVE CliParts(_)
CliParts(cli_fiats) ==
    IF cli_fiats = << >> THEN << >>
    ELSE (IF Head(cli_fiats) = <<"">> THEN << >> ELSE Parts(Head(cli_fiats)))
            \o CliParts(Tail(cli_fiats))

Range(s) == {s[i] : i \in 1..Len(s)}

\* _parse_fiats, lines 88-94: first occurrences, in order.
RECURSIVE Dedupe(_)
Dedupe(s) ==
    IF s = << >> THEN << >>
    ELSE LET ordered == Dedupe(SubSeq(s, 1, Len(s) - 1))
         IN  IF s[Len(s)] \in Range(ordered) THEN ordered ELSE Append(ordered, s[Len(s)])
\* _parse_fiats that merges: DEFAULT_FIATS follows the fiats of the command
\* line. Not what the code does.
_parse_fiats_merges_default(cli_fiats, DEFAULT_FIATS) ==
    LET fiats == CliParts(cli_fiats) \o DEFAULT_FIATS
    IN  Dedupe(IF fiats = << >> THEN <<"MXN">> ELSE fiats)

\* _parse_fiats, lines 69-95.
_parse_fiats(cli_fiats, DEFAULT_FIATS) ==
    LET given == CliParts(cli_fiats)
        fiats == IF given = << >> /\ DEFAULT_FIATS # << >> THEN DEFAULT_FIATS ELSE given
    IN  Dedupe(IF fiats = << >> THEN <<"MXN">> ELSE fiats)

\* A row: a dict. keys is the set of its keys; a field whose key is not in
\* keys holds no value.
NoError == [code |-> "", name |-> "", text |-> "", got |-> Absent]
NewRow(fiat, asset, ref_fiat) ==
    [keys |-> {"fiat", "asset", "ref_fiat"},
     fiat |-> fiat, asset |-> asset, ref_fiat |-> ref_fiat,
     buy_rate |-> Absent, sell_rate |-> Absent, fx |-> Absent,
     error |-> NoError, status |-> "",
     stablecoin_sell_premium |-> Absent, stablecoin_buy_premium |-> Absent,
     stablecoin_buy_sell_spread |-> Absent]

\* An error that is also written to the row's 'status'. Not what the code does.
WithError_sets_status(row, e) ==
    [row EXCEPT !.keys = @ \cup {"error", "status"}, !.error = e, !.status = "error"]
WithError(row, e) == [row EXCEPT !.keys = @ \cup {"error"}, !.error = e]

\* The row of lines 110-118, or the exception a provider let through.
Fetch3(fiat, asset, ref_fiat, buy, sell, fx) ==
    IF buy.kind = "raise" THEN buy
    ELSE IF sell.kind = "raise" THEN sell
    ELSE IF fx.kind = "raise" THEN fx
    ELSE Return([NewRow(fiat, asset, ref_fiat) EXCEPT
                    !.keys = @ \cup {"buy_rate", "sell_rate", "fx"},
                    !.buy_rate = buy.value, !.sell_rate = sell.value, !.fx = fx.value])

\* _collect_for_fiat without the try/except around compute_premiums: the
\* exception of the computation leaves the function. Not what the code does.
_collect_for_fiat_unguarded(fiat, asset, ref_fiat, buy, sell, fx, dec) ==
    LET fetched == Fetch3(fiat, asset, ref_fiat, buy, sell, fx)
        result == fetched.value
    IN  IF fetched.kind = "raise" THEN fetched
        ELSE IF result.buy_rate = PyNone \/ result.sell_rate = PyNone
        THEN Return(WithError(result, [NoError EXCEPT !.code = "insufficient_p2p_data"]))
        ELSE IF result.fx = PyNone
        THEN Return(WithError(result, [NoError EXCEPT !.code = "insufficient_fx_data"]))
        ELSE LET premiums == compute_premiums(result.sell_rate, result.buy_rate,
                                              result.fx.bid, result.fx.ask, dec)
             IN  IF premiums.kind = "raise" THEN premiums
                 ELSE Return([result EXCEPT
                        !.keys = @ \cup {"stablecoin_sell_premium", "stablecoin_buy_premium",
                                         "stablecoin_buy_sell_spread", "status"},
                        !.stablecoin_sell_premium = premiums.value.stablecoin_sell_premium,
                        !.stablecoin_buy_premium = premiums.value.stablecoin_buy_premium,
                        !.stablecoin_buy_sell_spread =
                            premiums.value.stablecoin_buy_sell_spread,
                        !.status = "ok"])

\* _collect_for_fiat with the FX result looked at before the quotes. Not what
\* the code does.
_collect_for_fiat_fx_first(fiat, asset, ref_fiat, buy, sell, fx, dec) ==
    LET fetched == Fetch3(fiat, asset, ref_fiat, buy, sell, fx)
        result == fetched.value
    IN  IF fetched.kind = "raise" THEN fetched
        ELSE IF result.fx = PyNone
        THEN Return(WithError(result, [NoError EXCEPT !.code = "insufficient_fx_data"]))
        ELSE IF result.buy_rate = PyNone \/ result.sell_rate = PyNone
        THEN Return(WithError(result, [NoError EXCEPT !.code = "insufficient_p2p_data"]))
        ELSE LET premiums == compute_premiums(result.sell_rate, result.buy_rate,
                                              result.fx.bid, result.fx.ask, dec)
             IN  IF premiums.kind = "raise"
                 THEN Return(WithError(result,
                        [code |-> "compute_error", name |-> premiums.name,
                         text |-> premiums.text, got |-> premiums.got]))
                 ELSE Return([result EXCEPT
                        !.keys = @ \cup {"stablecoin_sell_premium", "stablecoin_buy_premium",
                                         "stablecoin_buy_sell_spread", "status"},
                        !.stablecoin_sell_premium = premiums.value.stablecoin_sell_premium,
                        !.stablecoin_buy_premium = premiums.value.stablecoin_buy_premium,
                        !.stablecoin_buy_sell_spread =
                            premiums.value.stablecoin_buy_sell_spread,
                        !.status = "ok"])

\* _collect_for_fiat, lines 98-144, for what average_price (BUY, then SELL)
\* and fetch_fx_rate came to: the row returned, or the exception a provider
\* let through.
_collect_for_fiat(fiat, asset, ref_fiat, buy, sell, fx, dec) ==
    LET fetched == Fetch3(fiat, asset, ref_fiat, buy, sell, fx)
        result == fetched.value
    IN  IF fetched.kind = "raise" THEN fetched
        ELSE IF result.buy_rate = PyNone \/ result.sell_rate = PyNone
        THEN Return(WithError(result, [NoError EXCEPT !.code = "insufficient_p2p_data"]))
        ELSE IF result.fx = PyNone
        THEN Return(WithError(result, [NoError EXCEPT !.code = "insufficient_fx_data"]))
        ELSE LET premiums == compute_premiums(result.sell_rate, result.buy_rate,
                                              result.fx.bid, result.fx.ask, dec)
             IN  IF premiums.kind = "raise"
                 THEN Return(WithError(result,
                        [code |-> "compute_error", name |-> premiums.name,
                         text |-> premiums.text, got |-> premiums.got]))
                 ELSE Return([result EXCEPT
                        !.keys = @ \cup {"stablecoin_sell_premium", "stablecoin_buy_premium",
                                         "stablecoin_buy_sell_spread", "status"},
                        !.stablecoin_sell_premium = premiums.value.stablecoin_sell_premium,
                        !.stablecoin_buy_premium = premiums.value.stablecoin_buy_premium,
                        !.stablecoin_buy_sell_spread =
                            premiums.value.stablecoin_buy_sell_spread,
                        !.status = "ok"])

\* r.get("error") is truthy.
HasError(r) == "error" \in r.keys /\ r.error.code # ""

\* any(...) that looks at the first row only: not what the code does.
any_error_in_first_row(rows) == rows # << >> /\ HasError(rows[1])

\* any_error, line 283.
any_error(rows) == \E i \in 1..Len(rows) : HasError(rows[i])

\* What the command line and the environment offer.
CliEntries ==
    {<<"">>, <<"MXN">>, <<" BRL", "">>, <<"BRL", "MXN">>, <<"MXN", " ", "MXN">>}
CliFiats == SeqsUpTo(CliEntries, 2)
DefaultFiats == {<< >>, <<"ARS", "MXN", "ARS">>}
CliDecimals == {NoDecimals, Decimals(0)}

\* What the providers come to for a fiat. BUY: no ads, four ads priced
\* 1, 2, 3, 0 (the last one invalid), a "data" member that is a number.
\* SELL: no ads, three ads priced 1, four ads priced 1, 2, 3, 1. FX:
\* no credentials, a mid of 3 alone, a mid of 3 with a bid of 0, a mid of 3
\* with a bid of 2, a payload that is a list.
PricedAds(a, b, c) ==
    Fetched(<<Ad(NumText(a, 1), Absent, Absent), Ad(NumText(b, 1), Absent, Absent),
              Ad(NumText(c, 1), Absent, Absent)>>)
FourAds(d) == Fetched(Append(PricedAds(1, 2, 3).ads, Ad(NumText(d, 1), Absent, Absent)))
BuyAds == {Fetched(<< >>), FourAds(0), FetchedNumber}
SellAds == {Fetched(<< >>), PricedAds(1, 1, 1), FourAds(1)}
\* --min-valid-ads: not given, or an int.
CliMinValidAds == {NoInt, Int_(4)}
\* average_price as _collect_for_fiat calls it (lines 112-113): take_top and
\* average_last_n at their defaults, min_valid_ads passed on.
Quotes(fetched, min_valid_ads) ==
    average_price(fetched, DefaultTakeTop, DefaultAverageLastN, min_valid_ads)
FxResults ==
    {fetch_fx_rate("unset", "set", Response("json", "dict", "rows", "dict",
                                            Fin(3, 1), Absent, Absent))}
    \cup {fetch_fx_rate("set", "set", r) :
            r \in {Response("json", "dict", "rows", "dict", Fin(3, 1), Absent, Absent),
                   Response("json", "dict", "rows", "dict", Fin(3, 1), Fin(0, 1), Absent),
                   Response("json", "dict", "rows", "dict", Fin(3, 1), Fin(2, 1), Absent),
                   Response("json", "list", "missing", "dict", Absent, Absent, Absent)}}

\* main, lines 255-265: the arguments are parsed, the fiats listed.
MainParse ==
    /\ cli.pc = "idle"
    /\ \E f \in CliFiats, d \in DefaultFiats, dec \in CliDecimals, mva \in CliMinValidAds :
        cli' = [CliIdle EXCEPT !.pc = "L266", !.cli_fiats = f, !.DEFAULT_FIATS = d,
                               !.decimals = dec, !.min_valid_ads = mva,
                               !.fiats = _parse_fiats(f, d)]

\* main, lines 266-275: the next fiat's row is collected and appended; an
\* exception that leaves _collect_for_fiat leaves main.
MainCollect ==
    /\ cli.pc = "L266"
    /\ Len(cli.rows) < Len(cli.fiats)
    /\ \E buy_ads \in BuyAds, sell_ads \in SellAds, fx \in FxResults :
       \E buy \in Quotes(buy_ads, cli.min_valid_ads),
          sell \in Quotes(sell_ads, cli.min_valid_ads) :
        LET r == _collect_for_fiat(cli.fiats[Len(cli.rows) + 1], "USDT", "USD",
                                   buy, sell, fx, cli.decimals)
        IN  IF r.kind = "raise"
            THEN cli' = [cli EXCEPT !.pc = "crashed", !.ads = <<buy_ads, sell_ads>>,
                                    !.fetched = <<buy, sell, fx>>]
            ELSE cli' = [cli EXCEPT !.rows = Append(@, r.value),
                                    !.ads = <<buy_ads, sell_ads>>,
                                    !.fetched = <<buy, sell, fx>>]

\* main, lines 277-284: the rows are printed, the exit status returned.
MainReturn ==
    /\ cli.pc = "L266"
    /\ Len(cli.rows) = Len(cli.fiats)
    /\ cli' = [cli EXCEPT !.pc = "exited", !.exit = IF any_error(cli.rows) THEN 1 ELSE 0]

MainResume ==
    /\ cli.pc \in {"exited", "crashed"}
    /\ cli' = CliIdle

notCli == <<pc, fn, args, decimals, sell_premium, buy_premium, spread, outcome,
            last, calls, frames, fetch, ap, xe>>

NextCli ==
    \/ Keep(MainParse, notCli)
    \/ Keep(MainCollect, notCli)
    \/ Keep(MainReturn, notCli)
    \/ Keep(MainResume, notCli)

SpecCli == Init /\ [][NextCli]_vars

\* ------------------------------------------------- vocabulary of the claims
\* The call has ended: it returned ("done") or raised ("raised").
Finished == pc \in {"done", "raised"}
Params == DOMAIN args

\* A finite float strictly greater than zero.
IsRate(v) == v.ty = "float" /\ v.cls = "fin" /\ v.n > 0
\* A float that is zero or negative (minus infinity included).
NonPositive(v) == v.ty = "float" /\ (v.cls = "ninf" \/ (v.cls = "fin" /\ v.n <= 0))
\* None, or a value float() does not convert.
Missing(v) == v.ty = "NoneType"
NonNumeric(v) == v.ty = "list" \/ (v.ty = "str" /\ v.cls = "badtext")
\* Every argument but p is a rate.
OthersAreRates(p) == \A q \in Params \ {p} : IsRate(args[q])
AllRates == \A q \in Params : IsRate(args[q])
\* The call raised the validation error (ValueError).
RaisedValidationError == pc = "raised" /\ outcome.kind = "raise" /\ outcome.exc = "ValueError"

\* ---------------------------------------------------------------- claims

\* C1: a compute_premiums call in which exactly one input is zero or negative
\* and the other three are positive raises ValueError, and the message is
\* "<that input> must be > 0; got ...": it names that input by its parameter
\* name.
C1_SingleInvalidInputIsNamed ==
    (fn = "compute_premiums" /\ Finished) =>
        \A p \in Params :
            (NonPositive(args[p]) /\ OthersAreRates(p)) =>
                /\ RaisedValidationError
                /\ outcome.name = p
                /\ outcome.text = "must be > 0; got"

\* C1 witness: compute_premiums raised on a non-positive fx_bid, the other inputs rates.
C1_Witness ==
    /\ fn = "compute_premiums"
    /\ pc = "raised"
    /\ NonPositive(args.fx_bid)
    /\ OthersAreRates("fx_bid")
    /\ outcome.name = "fx_bid"

\* C2: a compute_premium or compute_spread call with an argument x <= 0 never
\* returns: it raises ValueError; the message names an argument of that
\* function that is itself missing, non-numeric or <= 0, and it names the
\* argument equal to x whenever the other argument is a rate.
C2_NonPositiveArgumentRejected ==
    (fn \in {"compute_premium", "compute_spread"} /\ Finished) =>
        \A p \in Params :
            NonPositive(args[p]) =>
                /\ RaisedValidationError
                /\ outcome.value = Absent
                /\ outcome.name \in Params
                /\ \/ NonPositive(args[outcome.name])
                   \/ Missing(args[outcome.name])
                   \/ NonNumeric(args[outcome.name])
                /\ OthersAreRates(p) =>
                      (outcome.name = p /\ outcome.text = "must be > 0; got")

\* C2 witness: compute_spread raised on a zero sell_rate whatever buy_rate was,
\* here a buy_rate that is not a rate and yet passes (NaN).
C2_Witness ==
    /\ fn = "compute_spread"
    /\ pc = "raised"
    /\ args.sell_rate = Fin(0, 1)
    /\ args.buy_rate = NaN
    /\ outcome.name = "sell_rate"

\* C3: a call of any of the three functions with an argument that is None or
\* non-numeric raises ValueError; when the other arguments are rates the
\* message names that argument, "must not be None" for None and "must be a
\* number" for a non-numeric value.
C3_MissingOrNonNumericRejected ==
    Finished =>
        \A p \in Params :
            (Missing(args[p]) \/ NonNumeric(args[p])) =>
                /\ RaisedValidationError
                /\ OthersAreRates(p) =>
                      /\ outcome.name = p
                      /\ outcome.text =
                            IF Missing(args[p]) THEN "must not be None" ELSE "must be a number"

\* C3 witness: compute_premiums raised on an fx_ask that float() refuses with TypeError.
C3_Witness ==
    /\ fn = "compute_premiums"
    /\ pc = "raised"
    /\ args.fx_ask = PyList
    /\ OthersAreRates("fx_ask")
    /\ outcome.text = "must be a number"


\* The message of error o shows value v: None is spelled out by "must not be
\* None"; any other value is shown after "got", as the float it converts to.
ShowsValue(o, v) ==
    \/ Missing(v) /\ o.text = "must not be None"
    \/ /\ ~Missing(v)
       /\ o.got # Absent
       /\ o.got.cls = v.cls /\ o.got.n = v.n /\ o.got.d = v.d

\* C4 (as claimed): every ValueError of the rate validation, whether for a
\* missing, a non-numeric, a zero or a negative value, names the input that
\* failed and shows its offending value.
C4_ErrorCarriesNameAndValue ==
    (Finished /\ RaisedValidationError) =>
        /\ outcome.name \in Params
        /\ ShowsValue(outcome, args[outcome.name])

\* C5 (as claimed): a call with an argument that is NaN, +inf or -inf raises
\* ValueError, as a call with a zero or negative argument does.
C5_NonFiniteRejected ==
    Finished =>
        \A p \in Params :
            (args[p].ty = "float" /\ args[p].cls \in {"nan", "inf", "ninf"}) =>
                RaisedValidationError

\* C6: no finite float above zero is refused, however small: a ValueError
\* never names an argument that is a rate, and a call whose arguments are all
\* rates returns; and a call with an argument that is exactly zero raises
\* ValueError.
C6_StrictThresholdNoMinimum ==
    Finished =>
        /\ RaisedValidationError =>
              (outcome.name \in Params /\ ~IsRate(args[outcome.name]))
        /\ AllRates => pc = "done"
        /\ (\E p \in Params : args[p] = Fin(0, 1)) => RaisedValidationError

\* C6 witness: compute_premium returned with the smallest positive input as reference rate.
C6_Witness ==
    /\ fn = "compute_premium"
    /\ pc = "done"
    /\ args.denominator_rate = Fin(1, TinyDen)
    /\ IsRate(args.numerator_rate)

\* value = 100 * (x - y) / z, for finite floats.
IsPercentOf(value, x, y, z) ==
    /\ value.ty = "float" /\ value.cls = "fin"
    /\ value.n * (z.n * x.d * y.d) = value.d * 100 * z.d * (x.n * y.d - y.n * x.d)
\* -1, 0, 1 as x < y, x = y, x > y, for finite floats.
Cmp(x, y) ==
    IF x.n * y.d > y.n * x.d THEN 1 ELSE IF x.n * y.d < y.n * x.d THEN -1 ELSE 0

\* C7: for positive observed and reference rates compute_premium returns
\* exactly ((observed / reference) - 1) * 100 = 100 * (observed - reference) /
\* reference, unrounded: positive iff observed > reference, zero iff they
\* are equal, negative iff observed < reference.
C7_PremiumFormula ==
    (fn = "compute_premium" /\ Finished /\ AllRates) =>
        /\ pc = "done"
        /\ IsPercentOf(outcome.value, args.numerator_rate, args.denominator_rate,
                       args.denominator_rate)
        /\ Sgn(outcome.value) = Cmp(args.numerator_rate, args.denominator_rate)

\* C7 witness: compute_premium returned a negative premium that is no whole number.
C7_Witness ==
    /\ fn = "compute_premium"
    /\ pc = "done"
    /\ AllRates
    /\ Cmp(args.numerator_rate, args.denominator_rate) = -1
    /\ outcome.value.d > 1

\* C8: for positive buy_rate and sell_rate compute_spread returns exactly
\* ((buy_rate - sell_rate) / sell_rate) * 100, unrounded; the result is
\* negative iff sell_rate > buy_rate, and it is returned, not raised.
C8_SpreadFormula ==
    (fn = "compute_spread" /\ Finished /\ AllRates) =>
        /\ pc = "done"
        /\ outcome.kind = "return"
        /\ IsPercentOf(outcome.value, args.buy_rate, args.sell_rate, args.sell_rate)
        /\ (Sgn(outcome.value) = -1) <=> (Cmp(args.sell_rate, args.buy_rate) = 1)

\* C8 witness: compute_spread returned a negative spread, sell_rate above buy_rate.
C8_Witness ==
    /\ fn = "compute_spread"
    /\ pc = "done"
    /\ AllRates
    /\ Cmp(args.sell_rate, args.buy_rate) = 1
    /\ Sgn(outcome.value) = -1

IsRoundingOf(field, raw, k) ==
    /\ field.ty = "float" /\ field.cls = "fin"
    /\ Pow10(k) % field.d = 0
    /\ LET m == field.n * (Pow10(k) \div field.d)
           twice == 2 * (m * raw.d - raw.n * Pow10(k))
       IN  /\ Abs(twice) <= raw.d
           /\ Abs(twice) = raw.d => m % 2 = 0

AtLeastHalfUnit(raw, k) == 2 * Abs(raw.n) * Pow10(k) >= raw.d

\* C11 (as claimed): with decimals = k, a field of the result has the sign of
\* the unrounded metric whenever that metric is at least 0.5 * 10^-k in
\* magnitude, the metric of magnitude exactly 0.5 * 10^-k included.
C11_RoundingKeepsSign ==
    (fn = "compute_premiums" /\ pc = "done" /\ AllRates /\ decimals.given) =>
        LET raw_sell == compute_premium(args.sell_rate, args.fx_bid).value
            raw_buy == compute_premium(args.buy_rate, args.fx_ask).value
            raw_spread == compute_spread(args.buy_rate, args.sell_rate).value
            res == outcome.value
        IN  /\ AtLeastHalfUnit(raw_sell, decimals.d) =>
                  Sgn(res.stablecoin_sell_premium) = Sgn(raw_sell)
            /\ AtLeastHalfUnit(raw_buy, decimals.d) =>
                  Sgn(res.stablecoin_buy_premium) = Sgn(raw_buy)
            /\ AtLeastHalfUnit(raw_spread, decimals.d) =>
                  Sgn(res.stablecoin_buy_sell_spread) = Sgn(raw_spread)

\* The value passes _validate_positive.
PassesValidation(v) == _validate_positive("value", v).kind = "return"

\* C12 (as claimed): a compute_premiums call ends in one of two ways only, the
\* ValueError of the validation or a returned Premiums, and it returns
\* whenever its four inputs pass the validation, numeric text included.
C12_OnlyValidationFailure ==
    (fn = "compute_premiums" /\ Finished) =>
        /\ (pc = "done" /\ outcome.kind = "return") \/ RaisedValidationError
        /\ (\A p \in Params : PassesValidation(args[p])) => pc = "done"

\* C13: compute_premiums runs validate-all, compute-all, round-all, return:
\* a metric is assigned only when all four inputs have passed the validation;
\* a metric differs from its raw value (has been rounded) only when all three
\* raw metrics are assigned; a call ended by the validation error has
\* assigned no metric and built no result.
C13_Pipeline ==
    fn = "compute_premiums" =>
        LET assigned == {m \in {sell_premium, buy_premium, spread} : m # Absent}
            raw_sell == compute_premium(args.sell_rate, args.fx_bid).value
            raw_buy == compute_premium(args.buy_rate, args.fx_ask).value
            raw_spread == compute_spread(args.buy_rate, args.sell_rate).value
        IN  /\ (sell_premium # Absent \/ buy_premium # Absent \/ spread # Absent) =>
                  (\A p \in Params : PassesValidation(args[p]))
            /\ (\/ sell_premium \notin {Absent, raw_sell}
                \/ buy_premium \notin {Absent, raw_buy}
                \/ spread \notin {Absent, raw_spread}) =>
                  (sell_premium # Absent /\ buy_premium # Absent /\ spread # Absent)
            /\ pc \in {"L169", "L170", "L171", "L172"} => assigned = {}
            /\ pc \in {"L180", "L181", "L182", "L184", "done"} =>
                  (sell_premium # Absent /\ buy_premium # Absent /\ spread # Absent)
            /\ RaisedValidationError =>
                  (assigned = {} /\ outcome.value = Absent)

\* C13 witness: between lines 180 and 181 the sell premium is rounded and
\* the buy premium is still raw, all three metrics assigned.
C13_Witness ==
    /\ fn = "compute_premiums"
    /\ pc = "L181"
    /\ decimals.given
    /\ sell_premium # compute_premium(args.sell_rate, args.fx_bid).value
    /\ buy_premium = compute_premium(args.buy_rate, args.fx_ask).value
    /\ spread # Absent

C15_ConcurrentAsAlone ==
    \A t \in Threads :
        LET c == calls[t]
            alone == compute_premiums(c.args.sell_rate, c.args.buy_rate, c.args.fx_bid,
                                      c.args.fx_ask, c.decimals)
            raw == compute_premiums(c.args.sell_rate, c.args.buy_rate, c.args.fx_bid,
                                    c.args.fx_ask, NoDecimals)
        IN  /\ c.pc = "idle" => frames[t] = NoFrame
            /\ c.pc \in {"done", "raised"} => c.outcome = alone
            /\ (c.pc # "idle" /\ alone.kind = "return") =>
                  /\ frames[t].sell_premium \in
                        {Absent, raw.value.stablecoin_sell_premium,
                         alone.value.stablecoin_sell_premium}
                  /\ frames[t].buy_premium \in
                        {Absent, raw.value.stablecoin_buy_premium,
                         alone.value.stablecoin_buy_premium}
                  /\ frames[t].spread \in
                        {Absent, raw.value.stablecoin_buy_sell_spread,
                         alone.value.stablecoin_buy_sell_spread}

\* C15 witness: one thread has returned its rounded Premiums while the other
\* thread, called with other arguments, stands between two of its roundings.
C15_Witness ==
    /\ calls["t1"].pc = "done"
    /\ calls["t1"].decimals.given
    /\ calls["t2"].pc = "L181"
    /\ calls["t2"].args # calls["t1"].args
    /\ frames["t2"] # frames["t1"]
    /\ calls["t1"].outcome.value.stablecoin_buy_sell_spread # Absent

\* The fiats requested: the codes on the command line, else DEFAULT_FIATS,
\* else MXN.
Requested ==
    IF CliParts(cli.cli_fiats) # << >> THEN CliParts(cli.cli_fiats)
    ELSE IF cli.DEFAULT_FIATS # << >> THEN cli.DEFAULT_FIATS
    ELSE <<"MXN">>
FirstAt(s, x) == CHOOSE i \in 1..Len(s) : s[i] = x /\ \A j \in 1..(i - 1) : s[j] # x

\* The failure the row's own quotes and FX result amount to, "" for none.
FailureOf(r) ==
    IF r.buy_rate = PyNone \/ r.sell_rate = PyNone THEN "insufficient_p2p_data"
    ELSE IF r.fx = PyNone THEN "insufficient_fx_data"
    ELSE IF \E v \in {r.sell_rate, r.buy_rate, r.fx.bid, r.fx.ask} : ~PassesValidation(v)
    THEN "compute_error"
    ELSE ""

\* C16: the batch of main. The rows are those of the distinct requested fiats
\* in request order, one each once main has returned; every row has exactly
\* the error its own quotes and FX result amount to, or status 'ok' and no
\* error, whatever happened to the other fiats; nothing but an exception
\* raised by a provider ends the batch early.
C16_BatchIsolation ==
    cli.pc # "idle" =>
        /\ Range(cli.fiats) = Range(Requested)
        /\ \A i, j \in 1..Len(cli.fiats) :
              i < j => FirstAt(Requested, cli.fiats[i]) < FirstAt(Requested, cli.fiats[j])
        /\ Len(cli.rows) <= Len(cli.fiats)
        /\ \A i \in 1..Len(cli.rows) :
              /\ cli.rows[i].fiat = cli.fiats[i]
              /\ cli.rows[i].error.code = FailureOf(cli.rows[i])
              /\ ("error" \in cli.rows[i].keys) = (FailureOf(cli.rows[i]) # "")
              /\ ("status" \in cli.rows[i].keys) = (FailureOf(cli.rows[i]) = "")
        /\ cli.pc = "exited" => Len(cli.rows) = Len(cli.fiats)
        /\ cli.pc = "crashed" => \E k \in 1..3 : cli.fetched[k].kind = "raise"

\* C16 witness: main has returned two rows, the first with a validation
\* error of compute_premiums, the second computed.
C16_Witness ==
    /\ cli.pc = "exited"
    /\ Len(cli.rows) = 2
    /\ cli.rows[1].error.code = "compute_error"
    /\ cli.rows[2].status = "ok"

\* C17: main returns 1 exactly when some row carries an error and 0 exactly
\* when every requested fiat has a row with status 'ok' and the three
\* premium fields.
C17_ExitStatus ==
    cli.pc = "exited" =>
        LET failed == {i \in 1..Len(cli.rows) : "error" \in cli.rows[i].keys}
            computed == {i \in 1..Len(cli.rows) :
                            /\ cli.rows[i].status = "ok"
                            /\ {"stablecoin_sell_premium", "stablecoin_buy_premium",
                                "stablecoin_buy_sell_spread"} \subseteq cli.rows[i].keys}
        IN  /\ cli.exit \in {0, 1}
            /\ (cli.exit = 1) = (failed # {})
            /\ (cli.exit = 0) = (computed = 1..Len(cli.fiats))

\* C17 witness: main has returned 1 for a batch whose first row was computed
\* and whose second row lacks FX data.
C17_Witness ==
    /\ cli.pc = "exited"
    /\ cli.exit = 1
    /\ Len(cli.rows) = 2
    /\ cli.rows[1].status = "ok"
    /\ cli.rows[2].error.code = "insufficient_fx_data"

\* C18 (as claimed): whatever list of ads the endpoint returned and whatever
\* take_top, average_last_n and min_valid_ads are, average_price returns None
\* or a number greater than zero.
C18_QuotePositiveOrNone ==
    (ap.pc = "done" /\ ap.fetched.ty = "list") =>
        \/ ap.outcome.value = PyNone
        \/ FLt(Fin(0, 1), ap.outcome.value)

\* C19 (as claimed): whatever the response, fetch_fx_rate returns None or a
\* dict whose bid and ask are both greater than zero.
C19_FxPositiveOrNone ==
    xe.pc = "done" =>
        \/ xe.outcome.value = PyNone
        \/ /\ FLt(Fin(0, 1), xe.outcome.value.bid)
           /\ FLt(Fin(0, 1), xe.outcome.value.ask)

\* C20 (as claimed): _fetch_ads makes at most max(_retries, 0) attempts, makes
\* none after an attempt that read a response, has slept once after every
\* failed attempt but the last when it ends, never after the last, and ends
\* by returning the empty list whenever no attempt read a response,
\* _retries <= 0 included.
C20_BoundedRetries ==
    LET posts == Len(fetch.log)
        ended == fetch.pc \in {"done", "raised"}
        failed == {i \in 1..posts : fetch.log[i] # "ok"}
    IN  /\ posts <= Max(fetch._retries, 0)
        /\ \A i \in 1..posts : fetch.log[i] # "net" => (i = posts /\ ended)
        /\ fetch.sleeps <= posts
        /\ (ended /\ posts > 0) => fetch.sleeps = posts - 1
        /\ (ended /\ failed = 1..posts) =>
              (fetch.pc = "done" /\ fetch.result = Fetched(<< >>))

\* C21 (as claimed): in _fetch_ads only the attempts that failed with a
\* network or HTTP error are followed by a sleep or another attempt; an
\* attempt that met an unexpected shape or a body that does not parse is the
\* last, with the empty list returned; and the function always ends by
\* returning a list, never by raising.
C21_OnlyNetworkErrorsRetried ==
    LET posts == Len(fetch.log)
        ended == fetch.pc \in {"done", "raised"}
        unexpected == {i \in 1..posts : fetch.log[i] = "bad" \/ i \in fetch.not_json}
    IN  /\ \A i \in unexpected :
              /\ i = posts
              /\ ended
              /\ fetch.result = Fetched(<< >>)
        /\ ended => (fetch.pc = "done" /\ fetch.result.ty = "list")

\* The ads of the call that pass _valid_ad, and those kept: the first
\* max(take_top, 0) of them in ascending order of price.
ValidAds == SelectSeq(ap.fetched.ads, _valid_ad)
KeptPrices ==
    LET kept == Take(SortByPrice(ValidAds), Max(ap.take_top, 0))
    IN  [i \in 1..Len(kept) |-> PriceOf(kept[i])]
NoNaNPrice == \A i \in 1..Len(ValidAds) : PriceOf(ValidAds[i]).cls # "nan"
\* The last n elements of s; there are none for n <= 0.
LastN(s, n) == IF n <= 0 THEN << >> ELSE SubSeq(s, Max(Len(s) - n, 0) + 1, Len(s))
\* v is the arithmetic mean of the prices in s.
IsMeanOf(v, s) ==
    /\ s # << >>
    /\ v.ty = "float" /\ v.cls = "fin"
    /\ v.n * Len(s) * Sum(s).d = Sum(s).n * v.d

\* C22 (as claimed): a call of average_price on a list of ads (no NaN price
\* among them) returns None when no ads were fetched or fewer than
\* max(average_last_n, 1) ads are kept, and whenever it returns a number that
\* number is the arithmetic mean of the last average_last_n prices kept.
C22_DocumentedAlgorithm ==
    (ap.pc = "done" /\ ap.fetched.ty = "list" /\ NoNaNPrice) =>
        /\ (ap.fetched.ads = << >> \/ Len(KeptPrices) < Max(ap.average_last_n, 1)) =>
              ap.outcome.value = PyNone
        /\ ap.take_top < ap.average_last_n => ap.outcome.value = PyNone
        /\ ap.outcome.value # PyNone =>
              IsMeanOf(ap.outcome.value, LastN(KeptPrices, ap.average_last_n))

\* The number of the fetched ads that pass _valid_ad.
ValidCount(fetched) == Len(SelectSeq(fetched.ads, _valid_ad))
\* A list of ads was fetched, min_valid_ads is given, and fewer ads than
\* that pass _valid_ad.
BelowThreshold(fetched, min_valid_ads) ==
    /\ fetched.ty = "list"
    /\ min_valid_ads.given
    /\ ValidCount(fetched) < min_valid_ads.d
\* No premium was computed for the row.
NotComputed(r) ==
    /\ "status" \notin r.keys
    /\ r.keys \cap {"stablecoin_sell_premium", "stablecoin_buy_premium",
                    "stablecoin_buy_sell_spread"} = {}

\* C23: with --min-valid-ads given, whenever fewer than min_valid_ads of the
\* ads fetched for BUY or for SELL pass _valid_ad, average_price returned None
\* for that side and the row of that fiat carries 'insufficient_p2p_data'
\* and no premium.
C23_MinValidAds ==
    (cli.pc \in {"L266", "exited"} /\ cli.rows # << >>) =>
        LET row == cli.rows[Len(cli.rows)]
        IN  \A k \in 1..2 :
                BelowThreshold(cli.ads[k], cli.min_valid_ads) =>
                    /\ cli.fetched[k] = Return(PyNone)
                    /\ (IF k = 1 THEN row.buy_rate ELSE row.sell_rate) = PyNone
                    /\ row.error.code = "insufficient_p2p_data"
                    /\ NotComputed(row)

\* C23 witness: with a threshold of 4, three of the four BUY ads are valid
\* (the fourth is priced 0); SELL and FX are available, and the row is marked
\* 'insufficient_p2p_data'.
C23_Witness ==
    /\ cli.pc \in {"L266", "exited"}
    /\ cli.rows # << >>
    /\ cli.min_valid_ads = Int_(4)
    /\ Len(cli.ads[1].ads) = 4
    /\ ValidCount(cli.ads[1]) = 3
    /\ cli.rows[Len(cli.rows)].sell_rate # PyNone
    /\ cli.rows[Len(cli.rows)].fx # PyNone
    /\ cli.rows[Len(cli.rows)].error.code = "insufficient_p2p_data"

\* The first of sell_rate, buy_rate, fx_bid, fx_ask that fails the
\* validation, "" when all four pass.
FirstInvalid(sell, buy, fx_bid, fx_ask) ==
    IF ~PassesValidation(sell) THEN "sell_rate"
    ELSE IF ~PassesValidation(buy) THEN "buy_rate"
    ELSE IF ~PassesValidation(fx_bid) THEN "fx_bid"
    ELSE IF ~PassesValidation(fx_ask) THEN "fx_ask"
    ELSE ""
\* The field is the metric, rounded when decimals are given.
IsMetric(field, raw, dec) ==
    IF dec.given THEN IsRoundingOf(field, raw, dec.d) ELSE field = raw

\* C24: the row of _collect_for_fiat. A BUY or SELL quote of None gives
\* 'insufficient_p2p_data', a missing FX result included; with both quotes, a
\* missing FX result gives 'insufficient_fx_data'; with the three present the
\* row is what compute_premiums comes to for sell_rate = sell, buy_rate = buy,
\* fx_bid = fx['bid'], fx_ask = fx['ask']: its premiums, or 'compute_error'
\* with the message of its exception. No premium is on a row with an error.
C24_Precedence ==
    (cli.pc \in {"L266", "exited"} /\ cli.rows # << >>) =>
        LET row == cli.rows[Len(cli.rows)]
            buy == cli.fetched[1].value
            sell == cli.fetched[2].value
            fx == cli.fetched[3].value
        IN  IF buy = PyNone \/ sell = PyNone
            THEN row.error.code = "insufficient_p2p_data" /\ NotComputed(row)
            ELSE IF fx = PyNone
            THEN row.error.code = "insufficient_fx_data" /\ NotComputed(row)
            ELSE IF FirstInvalid(sell, buy, fx.bid, fx.ask) # ""
            THEN /\ row.error.code = "compute_error"
                 /\ row.error.name = FirstInvalid(sell, buy, fx.bid, fx.ask)
                 /\ row.error.text # ""
                 /\ NotComputed(row)
            ELSE /\ "error" \notin row.keys
                 /\ row.status = "ok"
                 /\ IsMetric(row.stablecoin_sell_premium,
                             FMul(FDiv(FSub(sell, fx.bid), fx.bid), Fin(100, 1)), cli.decimals)
                 /\ IsMetric(row.stablecoin_buy_premium,
                             FMul(FDiv(FSub(buy, fx.ask), fx.ask), Fin(100, 1)), cli.decimals)

\* C24 witness: two rows of one batch. The first lacks the SELL quote and the
\* FX result and carries 'insufficient_p2p_data'; the second was computed
\* from a bid that differs from the ask.
C24_Witness ==
    /\ cli.pc = "exited"
    /\ Len(cli.rows) = 2
    /\ cli.rows[1].sell_rate = PyNone /\ cli.rows[1].fx = PyNone
    /\ cli.rows[1].error.code = "insufficient_p2p_data"
    /\ cli.rows[2].status = "ok"
    /\ cli.rows[2].fx.bid # cli.rows[2].fx.ask

\* The pieces of the --fiats entries that are not blank, in order: the codes
\* the command line gives.
RECURSIVE Flatten(_)
Flatten(entries) ==
    IF entries = << >> THEN << >> ELSE Head(entries) \o Flatten(Tail(entries))
CommandLineCodes ==
    LET pieces == Flatten(cli.cli_fiats)
        code(p) == IF p = " BRL" THEN "BRL" ELSE p
    IN  [i \in 1..Len(SelectSeq(pieces, LAMBDA p : p \notin {"", " "})) |->
            code(SelectSeq(pieces, LAMBDA p : p \notin {"", " "})[i])]
\* s lists each member of src once, in the order of first occurrence in src.
IsFirstOccurrences(s, src) ==
    /\ Range(s) = Range(src)
    /\ \A i, j \in 1..Len(s) : i < j => FirstAt(src, s[i]) < FirstAt(src, s[j])

FormatError(r) ==
    \/ r.kind = "not_json"
    \/ /\ r.kind = "json"
       /\ \/ r.payload # "dict"
          \/ r.to \in {"missing", "empty", "not_list"}
          \/ r.row # "dict"
          \/ r.mid \in {Absent, PyNone, BadText}

\* C26 (as claimed): fetch_fx_rate never raises. Without credentials it
\* returns None and sends no request; after a network or authentication
\* error, and after any format error in the response, it returns None.
C26_NeverRaises ==
    /\ xe.pc # "raised"
    /\ (xe.pc = "done" /\ ~is_configured(xe.id, xe.key)) =>
            xe.outcome = Return(PyNone) /\ xe.requests = 0
    /\ (xe.pc = "done" /\ is_configured(xe.id, xe.key)) =>
            ((xe.response.kind \in {"RequestException", "HTTPError"} \/ FormatError(xe.response))
                => xe.outcome = Return(PyNone))

\* The row gives a number under the key, as a JSON number or as text that
\* spells one; NumberOf is that number.
IsNumber(v) == v.ty = "float" \/ (v.ty = "str" /\ v.cls = "fin")
NumberOf(v) == IF v.ty = "str" THEN Fin(v.n, v.d) ELSE v

\* C27: in every dict fetch_fx_rate returns, 'mid' is the mid of the
\* response's first row, 'bid' is the row's bid when the row gives a number
\* for it and mid otherwise, and 'ask' likewise, each on its own.
C27_BidAskDefaultToMid ==
    (xe.pc = "done" /\ xe.outcome.value # PyNone) =>
        LET row == xe.response
            fx == xe.outcome.value
        IN  /\ IsNumber(row.mid)
            /\ fx.mid = NumberOf(row.mid)
            /\ fx.bid = (IF IsNumber(row.bid) THEN NumberOf(row.bid) ELSE fx.mid)
            /\ fx.ask = (IF IsNumber(row.ask) THEN NumberOf(row.ask) ELSE fx.mid)

\* C27 witness: the row gives mid 3 and bid 2 but no ask; the dict returned
\* has bid 2 and ask 3.
C27_Witness ==
    /\ xe.pc = "done"
    /\ xe.response.mid = Fin(3, 1) /\ xe.response.bid = Fin(2, 1)
    /\ xe.response.ask = Absent
    /\ xe.outcome.value = FxDict(Fin(3, 1), Fin(2, 1), Fin(3, 1))

\* The line of compute_premiums that validates the input, "none" for a name
\* that is no input of compute_premiums.
ValidationLine(name) ==
    CASE name = "sell_rate" -> "L169"
      [] name = "buy_rate"  -> "L170"
      [] name = "fx_bid"    -> "L171"
      [] name = "fx_ask"    -> "L172"
      [] OTHER              -> "none"

\* C28: a validation error of compute_premiums names the first of sell_rate,
\* buy_rate, fx_bid, fx_ask that is invalid, and it is raised by the line
\* that validates that input: never by a later line, never by the
\* validations inside compute_premium and compute_spread (lines 175-177).
C28_ValidationOrder ==
    /\ []((fn = "compute_premiums" /\ RaisedValidationError) =>
            /\ outcome.name \in {"sell_rate", "buy_rate", "fx_bid", "fx_ask"}
            /\ outcome.name =
                  FirstInvalid(args.sell_rate, args.buy_rate, args.fx_bid, args.fx_ask))
    /\ [][(fn = "compute_premiums" /\ pc # "raised" /\ pc' = "raised"
              /\ outcome'.exc = "ValueError")
            => pc = ValidationLine(outcome'.name)]_vars

\* C28 witness: buy_rate and fx_ask are both invalid, sell_rate and fx_bid are
\* rates; the error names buy_rate.
C28_Witness ==
    /\ fn = "compute_premiums"
    /\ RaisedValidationError
    /\ IsRate(args.sell_rate) /\ IsRate(args.fx_bid)
    /\ ~PassesValidation(args.buy_rate) /\ ~PassesValidation(args.fx_ask)
    /\ outcome.name = "buy_rate"

PremiumKeys ==
    {"stablecoin_sell_premium", "stablecoin_buy_premium", "stablecoin_buy_sell_spread"}
\* The two states of a row.
RowComputed(r) ==
    /\ "status" \in r.keys /\ r.status = "ok"
    /\ PremiumKeys \subseteq r.keys
    /\ "error" \notin r.keys
RowFailed(r) ==
    /\ "error" \in r.keys
    /\ "status" \notin r.keys
    /\ r.keys \cap PremiumKeys = {}

\* C29: every row _collect_for_fiat returned is computed (status 'ok', the
\* three premiums, no 'error') or failed ('error', no 'status', no premium),
\* never both and never neither; either way it has the keys fiat, asset,
\* ref_fiat, buy_rate, sell_rate and fx, holding the fiat asked for and what
\* the providers returned for it.
C29_RowShape ==
    \A i \in 1..Len(cli.rows) :
        LET r == cli.rows[i]
        IN  /\ RowComputed(r) # RowFailed(r)
            /\ {"fiat", "asset", "ref_fiat", "buy_rate", "sell_rate", "fx"} \subseteq r.keys
            /\ r.fiat = cli.fiats[i] /\ r.asset = "USDT" /\ r.ref_fiat = "USD"
            /\ (i = Len(cli.rows) /\ cli.pc # "crashed") =>
                  /\ r.buy_rate = cli.fetched[1].value
                  /\ r.sell_rate = cli.fetched[2].value
                  /\ r.fx = cli.fetched[3].value

\* C29 witness: a batch of two rows, the first computed, the second failed
\* for want of a BUY quote while it carries the SELL quote and the FX result.
C29_Witness ==
    /\ cli.pc = "exited"
    /\ Len(cli.rows) = 2
    /\ RowComputed(cli.rows[1])
    /\ RowFailed(cli.rows[2])
    /\ cli.rows[2].buy_rate = PyNone
    /\ cli.rows[2].sell_rate # PyNone /\ cli.rows[2].fx # PyNone


====
